---------------------------- MODULE Spec2Model ----------------------------
(***************************************************************************)
(* Model of the collaboration Hub of satu-naskah-be (src/socket/hub.go,    *)
(* src/socket/client.go): the room registry, the fanout loop Hub.Run, the  *)
(* write-back loop Hub.SaveWorker, Hub.RemoveDocument, and the read and    *)
(* write pumps of each Client.                                             *)
(*                                                                         *)
(* The three channels of the Hub (Register, Unregister, Broadcast) are     *)
(* unbuffered: a send completes in the same step in which Hub.Run receives *)
(* it.  A sender blocked on such a send is a client whose cpc names the    *)
(* send.  Every section of code run under h.mu is one atomic step; the     *)
(* code between two such sections is split at every channel operation.     *)
(***************************************************************************)
EXTENDS Naturals, Sequences, FiniteSets

(***************************************************************************)
(* Bounds of the model.                                                    *)
(***************************************************************************)
\* Capacity of a Client's Send channel.  The code allocates 256 slots
\* (client.go:69); the model keeps the same channel discipline with fewer,
\* enough for the two frames of a join and the presence update after it.
SendCap == 3

\* The frames the clients send in a run, all sockets together.
MaxFrames == 2

\* The Client objects ServeWs may create, each used for one connection.
Clients == {"c1", "c2"}

\* The document ids of the store.
Docs == {"D"}

\* The users: u1 owns every document, u2 has no collaborator row, u3 has a
\* collaborator row with the role reviewer.
Users == {"u1", "u2", "u3"}

\* Who opens the sockets: two users, or one user with two tabs.
TwoUsers == [c \in Clients |-> IF c = "c2" THEN "u2" ELSE "u1"]
TwoTabs == [c \in Clients |-> "u1"]
WithReviewer == [c \in Clients |-> IF c = "c2" THEN "u3" ELSE "u1"]

DocID(c) == "D"
Title(c) == "T"

(***************************************************************************)
(* Constants of hub.go.                                                    *)
(***************************************************************************)
UpdateType == "UPDATE"
CursorType == "CURSOR"
JoinType == "JOIN"
LeaveType == "LEAVE"
PresenceUpdateType == "PRESENCE_UPDATE"
MetadataType == "METADATA"

RoleWriter == "writer"
RoleReviewer == "reviewer"
RoleReader == "reader"

\* Stands for a key that a Go map or a table does not hold.
NoRow == "<no row>"

\* documents.owner_id of a document.
OwnerID(d) == "u1"

\* The collaborators table of the document when the system starts: the
\* owner once invited herself as a reader, u3 was invited as a reviewer.
InitialCollab ==
    [u \in Users |-> IF u = "u1" THEN RoleReader
                     ELSE IF u = "u3" THEN RoleReviewer ELSE NoRow]

\* A faulty resolution: a collaborator row goes before ownership.
ResolveRoleRowFirst(u, owner, row) ==
    IF row # NoRow THEN row
    ELSE IF owner = u THEN RoleWriter ELSE RoleReader

\* client.go:34-58: the role ServeWs gives a Client, from the owner of the
\* document and the role of the user's collaborators row, if there is one.
ResolveRole(u, owner, row) ==
    IF owner = u THEN RoleWriter
    ELSE IF row # NoRow THEN row ELSE RoleReader

\* hub.go:93, the content used when the load fails.
EmptyDelta == "{\"ops\":[]}"

\* The text of a frame a client sends: the JSON of a WSMessage with the
\* fields the client chose, or text that is no JSON object.
RawFrame(type, doc, user, payload) ==
    [json |-> TRUE, type |-> type, doc |-> doc, user |-> user,
     payload |-> payload]

Malformed ==
    [json |-> FALSE, type |-> "", doc |-> "", user |-> "", payload |-> ""]

\* The frames of an editor that follows the protocol.
ClientFrames ==
    {RawFrame(UpdateType, "D", "", "x"),
     RawFrame(UpdateType, "D", "", "y"),
     RawFrame(CursorType, "D", "", "p")}

\* The frames of a client that does not: another user's id and another
\* document's id in the fields, the types only the server sends, and text
\* that does not decode.
HostileFrames ==
    {RawFrame(UpdateType, "E", "u2", "y"),
     RawFrame(JoinType, "D", "", "p"),
     RawFrame(LeaveType, "D", "", "p"),
     RawFrame(PresenceUpdateType, "D", "", "p"),
     RawFrame(MetadataType, "D", "", "p"),
     Malformed}

\* What the world around the Hub does in a run: who connects with which
\* Client, whether the tickers (SaveWorker's and the ping ticker of
\* writePump) fire, whether the owner deletes the
\* document, which frames each client sends, whether a query of the store
\* may fail on a row that is there, whether the owner changes a
\* collaborator's role.  The Hub's own steps are never restricted.
Scenario(users, clients, ticks, deletes, frames, readErrors, invites) ==
    [users |-> users, clients |-> clients, ticks |-> ticks,
     deletes |-> deletes, frames |-> frames, readErrors |-> readErrors,
     invites |-> invites]

\* Every client is an editor.
Editors == [c \in Clients |-> ClientFrames]

\* c1 does not follow the protocol; c2 tries an edit it has no right to.
Hostile ==
    [c \in Clients |-> IF c = "c1" THEN HostileFrames
                       ELSE {RawFrame(UpdateType, "D", "", "x")}]

\* c1 makes one edit; c2 only listens.
OneEditor ==
    [c \in Clients |-> IF c = "c1" THEN {RawFrame(UpdateType, "D", "", "y")}
                       ELSE {}]

\* c2 tries an edit, before or after the owner has made it a writer; c1
\* only listens.
InvitedEditor ==
    [c \in Clients |-> IF c = "c2" THEN {RawFrame(UpdateType, "D", "", "y")}
                       ELSE {}]

Scenarios ==
    {Scenario(TwoUsers, Clients, FALSE, FALSE, Editors, FALSE, FALSE),
     Scenario(TwoTabs, Clients, FALSE, TRUE, Editors, FALSE, FALSE),
     Scenario(TwoUsers, {"c1"}, TRUE, TRUE, Editors, TRUE, FALSE),
     Scenario(TwoUsers, Clients, TRUE, FALSE, OneEditor, FALSE, FALSE),
     Scenario(WithReviewer, Clients, FALSE, FALSE, Hostile, FALSE, FALSE),
     Scenario(WithReviewer, Clients, FALSE, FALSE, InvitedEditor, FALSE,
              TRUE)}

\* The content of the documents row when the system starts.
InitialContent == "x"

(***************************************************************************)
(* Go maps as functions on the set of keys they hold.                      *)
(***************************************************************************)
MapSet(m, k, v) == [x \in (DOMAIN m) \cup {k} |-> IF x = k THEN v ELSE m[x]]
MapDelete(m, k) == [x \in (DOMAIN m) \ {k} |-> m[x]]
EmptyMap == [x \in {} |-> x]

VARIABLES
    env,            \* the scenario of the run
    Rooms,          \* Hub.Rooms: docID -> set of Clients
    DocumentCache,  \* Hub.DocumentCache: docID -> bytes
    DirtyDocs,      \* Hub.DirtyDocs: docID -> bool
    Presence,       \* Hub.Presence: docID -> set of userIDs (the map's keys)
    Send,           \* Client.Send: the frames buffered in the channel
    closed,         \* Client.Send has been closed
    connClosed,     \* Client.Conn.Close() has been called
    cpc,            \* where ServeWs / readPump of each Client stands
    wpc,            \* where writePump of each Client stands
    pending,        \* the WSMessage readPump is sending on Hub.Broadcast
    hubPc,          \* where Hub.Run stands
    hubClient,      \* Hub.Run: the local variable client of the Register
                    \* and Unregister cases
    hubMsg,         \* Hub.Run: the local variable msg (origin: who sent it)
    hubDoc,         \* Hub.Run / broadcastPresenceUpdate: docID
    currentContent, \* Hub.Run, Register case: currentContent
    clientsToSend,  \* the recipients still to be served by the send loop
    userStatuses,   \* broadcastPresenceUpdate: the list being broadcast
    swPc,           \* where SaveWorker stands
    docsToSave,     \* SaveWorker: docID -> snapshot still to be written
    swDoc,          \* SaveWorker: the docID just written
    updatedSince,   \* history: the payload of the last UPDATE cached since
                    \* SaveWorker copied the docID, "" when there is none
    saves,          \* history: how SaveWorker's write of the docID ended in
                    \* the tick before (prev) and in this tick (cur), as
                    \* long as no UPDATE was cached since the snapshot
    store,          \* the documents table: docID -> content
    delPc,          \* where DeleteDocument stands for each docID
    lastExec,       \* the content write issued by the last step, if any
    lastSkip,       \* the frame the last step read and skipped, if any
    heldIO,         \* the I/O the last step did while it held h.mu
    wroteNil,       \* the Client whose writePump, in the last step, wrote
                    \* to its transport what it received from its closed
                    \* Send channel
    rawMessage,     \* readPump: the frame being offered on Hub.Broadcast
    nFrames,        \* the frames read from the sockets so far
    nSent,          \* history: the frames ever put on Client.Send, up to 2
    collab,         \* the collaborators table of the document: userID -> role
    role            \* Client.Role, "" until ServeWs has built the Client

vars == <<env, Rooms, DocumentCache, DirtyDocs, Presence, Send, closed, connClosed,
          cpc, pending, hubPc, hubClient, hubMsg, hubDoc, currentContent,
          clientsToSend, userStatuses, swPc, docsToSave, swDoc, updatedSince,
          store, delPc, lastExec, lastSkip, heldIO, rawMessage, nFrames,
          nSent, saves, wpc, wroteNil, collab, role>>

hubVars == <<Rooms, DocumentCache, DirtyDocs, Presence>>
hubLocals == <<hubClient, hubMsg, hubDoc, currentContent, clientsToSend,
               userStatuses>>
swVars == <<swPc, docsToSave, swDoc>>

UserID(c) == env.users[c]

\* The role ServeWs resolves for a user (client.go:34-58) as the tables
\* stand.
RoleOf(u) == ResolveRole(u, OwnerID("D"), collab[u])

Role(c) == role[c]

NoClient == "<none>"
NoDoc == "<none>"
NoMsg == [type |-> "", doc |-> NoDoc, user |-> "", payload |-> "",
          origin |-> NoClient]
NoExec == [doc |-> NoDoc, content |-> "", by |-> ""]
NoSkip == [client |-> NoClient, frame |-> Malformed]

\* The step writes nothing received from a closed Send channel.
NoNilWrite == wroteNil' = NoClient

NoSaves == [prev |-> "none", cur |-> "none"]

\* The step skips no frame.
Silent == lastSkip' = NoSkip

\* The step does no I/O between h.mu.Lock() and h.mu.Unlock().
Unheld == heldIO' = {}

\* The frames put on the Send channels by the step are counted.
Counted ==
    nSent' = [c \in Clients |->
                IF Len(Send'[c]) > Len(Send[c]) /\ nSent[c] < 2
                THEN nSent[c] + 1 ELSE nSent[c]]

\* A value read from a Go map: the zero value when the key is absent.
CacheGet(d) == IF d \in DOMAIN DocumentCache THEN DocumentCache[d] ELSE ""
DirtyGet(d) == IF d \in DOMAIN DirtyDocs THEN DirtyDocs[d] ELSE FALSE
RoomGet(d) == IF d \in DOMAIN Rooms THEN Rooms[d] ELSE {}

(***************************************************************************)
(* Frames: the JSON text of a WSMessage, field by field.                   *)
(***************************************************************************)
\* json.RawMessage.MarshalJSON: a nil payload is written as null.
MarshalPayload(p) == IF p = "" THEN "null" ELSE p

Frame(type, doc, user, payload, users) ==
    [type |-> type, doc |-> doc, user |-> user, payload |-> payload,
     users |-> users]

\* A faulty join frame: the stored content instead of the cached one.
InitialFrameStored(c, content) ==
    [type |-> UpdateType, doc |-> DocID(c), user |-> "",
     payload |-> store[DocID(c)], users |-> {}]

InitialFrame(c, content) ==
    Frame(UpdateType, DocID(c), "", MarshalPayload(content), {})

MetaFrame(c) == Frame(MetadataType, DocID(c), UserID(c), Title(c), {})

PresenceFrame(d, statuses) == Frame(PresenceUpdateType, d, "", "", statuses)

BroadcastFrame(msg) ==
    Frame(msg.type, msg.doc, msg.user, MarshalPayload(msg.payload), {})

Init ==
    /\ env \in Scenarios
    /\ Rooms = EmptyMap
    /\ DocumentCache = EmptyMap
    /\ DirtyDocs = EmptyMap
    /\ Presence = EmptyMap
    /\ Send = [c \in Clients |-> <<>>]
    /\ closed = [c \in Clients |-> FALSE]
    /\ connClosed = [c \in Clients |-> FALSE]
    /\ cpc = [c \in Clients |-> "new"]
    /\ pending = [c \in Clients |-> NoMsg]
    /\ hubPc = "select"
    /\ hubClient = NoClient
    /\ hubMsg = NoMsg
    /\ hubDoc = NoDoc
    /\ currentContent = ""
    /\ clientsToSend = {}
    /\ userStatuses = {}
    /\ swPc = "tick"
    /\ docsToSave = EmptyMap
    /\ swDoc = NoDoc
    /\ updatedSince = [d \in Docs |-> ""]
    /\ store = [d \in Docs |-> InitialContent]
    /\ delPc = [d \in Docs |-> "none"]
    /\ lastExec = NoExec
    /\ lastSkip = NoSkip
    /\ heldIO = {}
    /\ wroteNil = NoClient
    /\ wpc = [c \in Clients |-> "off"]
    /\ rawMessage = [c \in Clients |-> Malformed]
    /\ nFrames = 0
    /\ nSent = [c \in Clients |-> 0]
    /\ saves = [d \in Docs |-> NoSaves]
    /\ collab = InitialCollab
    /\ role = [c \in Clients |-> ""]


(***************************************************************************)
(* ServeWs and the pumps of a Client (client.go).                          *)
(***************************************************************************)
\* client.go:41-48: the documents row is looked up before the Client is
\* built; without a row, or on a query error, ServeWs returns.
ServeWs(c) ==
    /\ cpc[c] = "new"
    /\ c \in env.clients
    /\ cpc' = [cpc EXCEPT ![c] =
                IF store[DocID(c)] = NoRow THEN "rejected" ELSE "register"]
    /\ role' = [role EXCEPT ![c] =
                 IF store[DocID(c)] = NoRow THEN @ ELSE RoleOf(UserID(c))]
    /\ lastExec' = NoExec
    /\ UNCHANGED <<nFrames, env, collab, nSent, saves>>
    /\ Silent
    /\ Unheld
    /\ NoNilWrite
    /\ UNCHANGED wpc
    /\ UNCHANGED rawMessage
    /\ UNCHANGED <<hubVars, hubLocals, hubPc, swVars, Send, closed,
                   connClosed, pending, updatedSince, store, delPc>>

\* A faulty decoder: text that is no JSON object yields a message.
UnmarshalAny(raw) ==
    [type |-> raw.type, doc |-> raw.doc, user |-> raw.user,
     payload |-> raw.payload, origin |-> NoClient]

\* client.go:103-107: json.Unmarshal into a WSMessage; NoMsg stands for the
\* decode error.
Unmarshal(raw) ==
    IF raw.json
    THEN [type |-> raw.type, doc |-> raw.doc, user |-> raw.user,
          payload |-> raw.payload, origin |-> NoClient]
    ELSE NoMsg

\* A faulty stamp: the ids the client wrote are kept.
StampOrigin(c, msg) == [msg EXCEPT !.origin = c]

\* A faulty role check: every frame goes on.
PermittedAll(c, msg) == TRUE

\* client.go:112-113: the ids of the Client replace those of the frame.
Stamp(c, msg) ==
    [msg EXCEPT !.doc = DocID(c), !.user = UserID(c), !.origin = c]

\* client.go:116-123: the role check; TRUE when the frame goes on.
Permitted(c, msg) == msg.type # UpdateType \/ Role(c) = RoleWriter

\* client.go:102-123: the message readPump hands to the Hub for a frame, or
\* NoMsg when the frame is skipped.
Forwarded(c, raw) ==
    IF Unmarshal(raw) = NoMsg THEN NoMsg
    ELSE IF Permitted(c, Stamp(c, Unmarshal(raw)))
         THEN Stamp(c, Unmarshal(raw))
         ELSE NoMsg

\* client.go:94-127: one frame is read, decoded, stamped and offered on
\* Broadcast.
ReadMessage(c) ==
    /\ cpc[c] = "read"
    /\ ~connClosed[c]
    /\ nFrames < MaxFrames
    /\ nFrames' = nFrames + 1
    /\ UNCHANGED <<env, collab, role, nSent, saves>>
    /\ Unheld
    /\ NoNilWrite
    /\ UNCHANGED wpc
    /\ \E in \in env.frames[c] :
         IF Forwarded(c, in) = NoMsg
         THEN /\ lastSkip' = [client |-> c, frame |-> in]
              /\ UNCHANGED <<cpc, pending, rawMessage>>
         ELSE /\ lastSkip' = NoSkip
              /\ cpc' = [cpc EXCEPT ![c] = "broadcast"]
              /\ pending' = [pending EXCEPT ![c] = Forwarded(c, in)]
              /\ rawMessage' = [rawMessage EXCEPT ![c] = in]
    /\ lastExec' = NoExec
    /\ UNCHANGED <<hubVars, hubLocals, hubPc, swVars, Send, closed,
                   connClosed, updatedSince, store, delPc>>

\* client.go:95-99 and 84-87: the read fails (the peer left, or the
\* transport was closed); readPump offers the Client on Unregister.
ReadError(c) ==
    /\ cpc[c] = "read"
    /\ cpc' = [cpc EXCEPT ![c] = "unregister"]
    /\ lastExec' = NoExec
    /\ UNCHANGED <<nFrames, env, collab, role, nSent, saves>>
    /\ Silent
    /\ Unheld
    /\ NoNilWrite
    /\ UNCHANGED wpc
    /\ UNCHANGED rawMessage
    /\ UNCHANGED <<hubVars, hubLocals, hubPc, swVars, Send, closed,
                   connClosed, pending, updatedSince, store, delPc>>

\* client.go:88: the deferred c.Conn.Close() of readPump, after the Hub has
\* taken the Client from Unregister.
ConnClose(c) ==
    /\ cpc[c] = "closing"
    /\ cpc' = [cpc EXCEPT ![c] = "done"]
    /\ connClosed' = [connClosed EXCEPT ![c] = TRUE]
    /\ lastExec' = NoExec
    /\ UNCHANGED <<nFrames, env, collab, role, nSent, saves>>
    /\ Silent
    /\ Unheld
    /\ NoNilWrite
    /\ UNCHANGED wpc
    /\ UNCHANGED rawMessage
    /\ UNCHANGED <<hubVars, hubLocals, hubPc, swVars, Send, closed,
                   pending, updatedSince, store, delPc>>

\* A faulty channel: the receive takes the frame sent last.
AfterReceiveNewest(q) == SubSeq(q, 1, Len(q) - 1)

\* client.go:138: message := <-c.Send on a buffered channel takes the frame
\* that was sent first; what stays in the channel.
AfterReceive(q) == Tail(q)

\* client.go:138-139: writePump takes one frame from Send and writes it; the
\* error of the write is ignored.
WritePump(c) ==
    /\ wpc[c] = "run"
    /\ Send[c] # <<>>
    /\ Send' = [Send EXCEPT ![c] = AfterReceive(@)]
    /\ lastExec' = NoExec
    /\ UNCHANGED <<nFrames, env, collab, role, nSent, saves>>
    /\ Silent
    /\ Unheld
    /\ NoNilWrite
    /\ UNCHANGED wpc
    /\ UNCHANGED rawMessage
    /\ UNCHANGED <<hubVars, hubLocals, hubPc, swVars, closed, connClosed,
                   cpc, pending, updatedSince, store, delPc>>

\* client.go:138-139: the receive has no ", ok": on the closed and drained
\* channel it yields nil at once, and writePump writes it as a text frame,
\* which reaches the transport as long as Conn.Close() has not been called.
WritePumpClosed(c) ==
    /\ wpc[c] = "run"
    /\ Send[c] = <<>>
    /\ closed[c]
    /\ wroteNil' = IF connClosed[c] THEN NoClient ELSE c
    /\ lastExec' = NoExec
    /\ UNCHANGED <<nFrames, env, collab, role, nSent, saves>>
    /\ Silent
    /\ Unheld
    /\ UNCHANGED wpc
    /\ UNCHANGED rawMessage
    /\ UNCHANGED <<hubVars, hubLocals, hubPc, swVars, Send, closed,
                   connClosed, cpc, pending, updatedSince, store, delPc>>

\* client.go:141-144: the ticker fires and the ping cannot be written on a
\* closed transport: writePump returns.  (A ping that is written changes
\* nothing.)
WritePing(c) ==
    /\ wpc[c] = "run"
    /\ env.ticks
    /\ connClosed[c]
    /\ wpc' = [wpc EXCEPT ![c] = "exited"]
    /\ lastExec' = NoExec
    /\ UNCHANGED <<nFrames, env, collab, role, nSent, saves>>
    /\ Silent
    /\ Unheld
    /\ NoNilWrite
    /\ UNCHANGED rawMessage
    /\ UNCHANGED <<hubVars, hubLocals, hubPc, swVars, Send, closed,
                   connClosed, cpc, pending, updatedSince, store, delPc>>

(***************************************************************************)
(* The documents table.                                                    *)
(***************************************************************************)
\* UPDATE documents SET content = $1 WHERE id = $2: changes the row when the
\* statement succeeds and the row exists.
StoreWrite(st, d, content, ok) ==
    IF ok /\ st[d] # NoRow THEN [st EXCEPT ![d] = content] ELSE st

Exec(d, content, by) == [doc |-> d, content |-> content, by |-> by]

(***************************************************************************)
(* Hub.Run (hub.go:77-200).                                                *)
(***************************************************************************)
\* How the query of hub.go:90 may end: TRUE when it returns without an
\* error other than "no rows".
QueryOutcomes == IF env.readErrors THEN BOOLEAN ELSE {TRUE}

\* A faulty load: whatever the query left in content is cached.
LoadContentUnchecked(d, ok) == IF ok THEN store[d] ELSE ""

\* hub.go:89-95: the content the first Client of a room finds; when the
\* query fails, the row being gone or the read failing, the empty delta is
\* used instead.
LoadContent(d, ok) ==
    IF ok /\ store[d] # NoRow THEN store[d] ELSE EmptyDelta

\* hub.go:80-105: the Register case up to the release of the lock.
HubRegister(c) ==
    /\ hubPc = "select"
    /\ cpc[c] = "register"
    /\ \E ok \in (IF DocID(c) \in DOMAIN Rooms THEN {TRUE} ELSE QueryOutcomes) :
       LET d == DocID(c)
           first == d \notin DOMAIN Rooms
           cache == IF first
                    THEN MapSet(DocumentCache, d, LoadContent(d, ok))
                    ELSE DocumentCache
           pres == IF first \/ d \notin DOMAIN Presence
                   THEN {} ELSE Presence[d]
       IN /\ Rooms' = MapSet(Rooms, d, RoomGet(d) \cup {c})
          /\ Presence' = MapSet(Presence, d, pres \cup {UserID(c)})
          /\ DocumentCache' = cache
          /\ currentContent' = (IF d \in DOMAIN cache THEN cache[d] ELSE "")
    /\ hubPc' = "reg_update"
    /\ hubClient' = c
    /\ cpc' = [cpc EXCEPT ![c] = "read"]
    /\ lastExec' = NoExec
    /\ UNCHANGED <<nFrames, env, collab, role, nSent, saves>>
    /\ Silent
    /\ heldIO' = IF DocID(c) \in DOMAIN Rooms THEN {} ELSE {"QueryRow"}
    /\ NoNilWrite
    /\ wpc' = [wpc EXCEPT ![c] = "run"]
    /\ UNCHANGED rawMessage
    /\ UNCHANGED <<DirtyDocs, hubMsg, hubDoc, clientsToSend, userStatuses,
                   swVars, Send, closed, connClosed, pending, updatedSince,
                   store, delPc>>

\* hub.go:109-110: client.Send <- initialMsgPayload, a blocking send.
HubRegSendUpdate ==
    /\ hubPc = "reg_update"
    /\ IF closed[hubClient]
       THEN /\ hubPc' = "panic"
            /\ UNCHANGED Send
       ELSE /\ Len(Send[hubClient]) < SendCap
            /\ Send' = [Send EXCEPT ![hubClient] =
                          Append(@, InitialFrame(hubClient, currentContent))]
            /\ hubPc' = "reg_meta"
    /\ lastExec' = NoExec
    /\ UNCHANGED <<nFrames, env, collab, role>>
    /\ Counted
    /\ UNCHANGED saves
    /\ Silent
    /\ Unheld
    /\ NoNilWrite
    /\ UNCHANGED wpc
    /\ UNCHANGED rawMessage
    /\ UNCHANGED <<hubVars, hubLocals, swVars, closed, connClosed, cpc,
                   pending, updatedSince, store, delPc>>

\* hub.go:113-119: client.Send <- metaMsg, then broadcastPresenceUpdate.
HubRegSendMeta ==
    /\ hubPc = "reg_meta"
    /\ IF closed[hubClient]
       THEN /\ hubPc' = "panic"
            /\ UNCHANGED <<Send, hubDoc, hubClient, currentContent>>
       ELSE /\ Len(Send[hubClient]) < SendCap
            /\ Send' = [Send EXCEPT ![hubClient] =
                          Append(@, MetaFrame(hubClient))]
            /\ hubPc' = "presence"
            /\ hubDoc' = DocID(hubClient)
            /\ hubClient' = NoClient
            /\ currentContent' = ""
    /\ lastExec' = NoExec
    /\ UNCHANGED <<nFrames, env, collab, role>>
    /\ Counted
    /\ UNCHANGED saves
    /\ Silent
    /\ Unheld
    /\ NoNilWrite
    /\ UNCHANGED wpc
    /\ UNCHANGED rawMessage
    /\ UNCHANGED <<hubVars, hubMsg, clientsToSend, userStatuses, swVars,
                   closed, connClosed, cpc, pending, updatedSince, store,
                   delPc>>

\* A faulty recipient list: the sender is not left out.
RecipientsAll(msg) == RoomGet(msg.doc)

\* hub.go:177-182: the Clients a broadcast is sent to.
Recipients(msg) == {c \in RoomGet(msg.doc) : UserID(c) # msg.user}

\* A faulty test: every message is taken for a document update.
IsUpdateAny(msg) == TRUE

\* A faulty test: no message is taken for a document update.
IsUpdateNever(msg) == FALSE

\* hub.go:160: msg.Type == UpdateType.
IsUpdate(msg) == msg.type = UpdateType

\* hub.go:156-183: the Broadcast case up to the release of the lock.
BroadcastLocked(msg) ==
    /\ IF IsUpdate(msg)
       THEN /\ DocumentCache' = MapSet(DocumentCache, msg.doc, msg.payload)
            /\ DirtyDocs' = MapSet(DirtyDocs, msg.doc, TRUE)
            /\ updatedSince' = [updatedSince EXCEPT ![msg.doc] =
                                   IF msg.doc \in DOMAIN docsToSave
                                   THEN msg.payload ELSE ""]
            /\ saves' = [saves EXCEPT ![msg.doc] = NoSaves]
       ELSE UNCHANGED <<DocumentCache, DirtyDocs, updatedSince, saves>>
    /\ clientsToSend' = Recipients(msg)
    /\ IF Recipients(msg) = {}
       THEN /\ hubPc' = "select"
            /\ hubMsg' = NoMsg
       ELSE /\ hubPc' = "bcast_send"
            /\ hubMsg' = msg
    /\ UNCHANGED <<Rooms, Presence, hubClient, hubDoc, currentContent,
                   userStatuses>>

\* hub.go:156: msg := <-h.Broadcast, sent by the readPump of c
\* (client.go:127).
HubBroadcast(c) ==
    /\ hubPc = "select"
    /\ cpc[c] = "broadcast"
    /\ BroadcastLocked(pending[c])
    /\ cpc' = [cpc EXCEPT ![c] = "read"]
    /\ pending' = [pending EXCEPT ![c] = NoMsg]
    /\ rawMessage' = [rawMessage EXCEPT ![c] = Malformed]
    /\ lastExec' = NoExec
    /\ UNCHANGED <<nFrames, env, collab, role, nSent>>
    /\ Silent
    /\ Unheld
    /\ NoNilWrite
    /\ UNCHANGED wpc
    /\ UNCHANGED <<swVars, Send, closed, connClosed, store, delPc>>

\* hub.go:188-197: one turn of the send loop.  A full channel makes the Hub
\* send the Client on h.Unregister (hub.go:195); that channel is unbuffered
\* and is received only by Hub.Run's own select (hub.go:121), so the send
\* never completes: no step leaves "bcast_unregister".
HubBroadcastSend(c) ==
    /\ hubPc = "bcast_send"
    /\ c \in clientsToSend
    /\ IF closed[c]
       THEN /\ hubPc' = "panic"
            /\ UNCHANGED <<Send, clientsToSend, hubClient, hubMsg>>
       ELSE IF Len(Send[c]) < SendCap
       THEN /\ Send' = [Send EXCEPT ![c] = Append(@, BroadcastFrame(hubMsg))]
            /\ clientsToSend' = clientsToSend \ {c}
            /\ hubPc' = IF clientsToSend = {c} THEN "select" ELSE "bcast_send"
            /\ hubMsg' = IF clientsToSend = {c} THEN NoMsg ELSE hubMsg
            /\ UNCHANGED hubClient
       ELSE /\ hubPc' = "bcast_unregister"
            /\ hubClient' = c
            /\ UNCHANGED <<Send, clientsToSend, hubMsg>>
    /\ lastExec' = NoExec
    /\ UNCHANGED <<nFrames, env, collab, role>>
    /\ Counted
    /\ UNCHANGED saves
    /\ Silent
    /\ Unheld
    /\ NoNilWrite
    /\ UNCHANGED wpc
    /\ UNCHANGED rawMessage
    /\ UNCHANGED <<hubVars, hubDoc, currentContent, userStatuses, swVars,
                   closed, connClosed, cpc, pending, updatedSince, store,
                   delPc>>

\* A faulty unregister: the Client stays in the room.
RoomAfterLeaveKept(d, c) == RoomGet(d)

\* hub.go:127: the room once the Client is taken out.
RoomAfterLeave(d, c) == RoomGet(d) \ {c}

\* A faulty cleanup: the room is never found empty.
RoomEmptiedNever(d, c) == FALSE

\* A faulty cleanup: the room is dropped whenever a Client leaves.
RoomEmptiedAlways(d, c) == TRUE

\* hub.go:132: the room is empty once the Client is taken out.
RoomEmptied(d, c) == RoomGet(d) \ {c} = {}

\* A faulty cleanup: the room is dropped without the flush.
FlushNever(d) == NoExec

\* hub.go:133-136: the content written when the last Client leaves; NoExec
\* when nothing is written.
FlushOnClose(d) ==
    IF DirtyGet(d) THEN Exec(d, CacheGet(d), "unregister") ELSE NoExec

\* hub.go:128: the presence map after the Client has left.
PresenceAfterLeave(d, c) ==
    IF d \in DOMAIN Presence THEN Presence[d] \ {UserID(c)} ELSE {}

\* hub.go:121-148: the Unregister case up to the release of the lock.  The
\* Client comes from its readPump (client.go:87), which then closes the
\* transport (client.go:88).
HubUnregister(c) ==
    /\ hubPc = "select"
    /\ cpc[c] = "unregister"
    /\ LET d == DocID(c) IN
         IF c \in RoomGet(d)
         THEN IF closed[c]
              THEN /\ hubPc' = "panic"
                   /\ lastExec' = NoExec
                   /\ UNCHANGED <<hubVars, closed, store, updatedSince>>
              ELSE /\ closed' = [closed EXCEPT ![c] = TRUE]
                   /\ hubPc' = "unreg_check"
                   /\ IF RoomEmptied(d, c)
                      THEN /\ lastExec' = FlushOnClose(d)
                           /\ \E ok \in BOOLEAN :
                                store' = IF FlushOnClose(d) = NoExec
                                         THEN store
                                         ELSE StoreWrite(store, d,
                                                FlushOnClose(d).content, ok)
                           /\ Rooms' = MapDelete(Rooms, d)
                           /\ Presence' = MapDelete(Presence, d)
                           /\ DocumentCache' = MapDelete(DocumentCache, d)
                           /\ DirtyDocs' = MapDelete(DirtyDocs, d)
                           /\ UNCHANGED updatedSince
                      ELSE /\ Rooms' = MapSet(Rooms, d, RoomAfterLeave(d, c))
                           /\ Presence' = MapSet(Presence, d,
                                                 PresenceAfterLeave(d, c))
                           /\ lastExec' = NoExec
                           /\ UNCHANGED <<DocumentCache, DirtyDocs, store,
                                          updatedSince>>
         ELSE /\ hubPc' = "unreg_check"
              /\ lastExec' = NoExec
              /\ UNCHANGED <<hubVars, closed, store, updatedSince>>
    /\ hubDoc' = DocID(c)
    /\ UNCHANGED <<nFrames, env, collab, role, nSent, saves>>
    /\ Silent
    /\ heldIO' = IF lastExec' = NoExec THEN {} ELSE {"Exec"}
    /\ NoNilWrite
    /\ UNCHANGED wpc
    /\ UNCHANGED rawMessage
    /\ cpc' = [cpc EXCEPT ![c] = "closing"]
    /\ hubClient' = c
    /\ UNCHANGED <<hubMsg, currentContent, clientsToSend,
                   userStatuses, swVars, Send, pending, delPc, connClosed>>

\* hub.go:152-154: h.Rooms[docID] is read without the lock.
HubUnregCheck ==
    /\ hubPc = "unreg_check"
    /\ IF hubDoc \in DOMAIN Rooms
       THEN /\ hubPc' = "presence"
            /\ UNCHANGED <<hubDoc, hubClient>>
       ELSE /\ hubPc' = "select"
            /\ hubDoc' = NoDoc
            /\ hubClient' = NoClient
    /\ lastExec' = NoExec
    /\ UNCHANGED <<nFrames, env, collab, role, nSent, saves>>
    /\ Silent
    /\ Unheld
    /\ NoNilWrite
    /\ UNCHANGED wpc
    /\ UNCHANGED rawMessage
    /\ UNCHANGED <<hubVars, hubMsg, currentContent, clientsToSend,
                   userStatuses, swVars, Send, closed, connClosed, cpc,
                   pending, updatedSince, store, delPc>>

\* hub.go:288-298: the Clients a presence update is sent to.
PresenceRecipients(d) == IF d \in DOMAIN Presence THEN RoomGet(d) ELSE {}

\* A faulty send: the last free slot of the channel is never used.
TrySendOffByOne(q, frame) ==
    IF Len(q) + 1 < SendCap THEN Append(q, frame) ELSE q

\* A faulty send: a full channel loses its oldest frame to the new one.
TrySendDropOldest(q, frame) ==
    IF Len(q) < SendCap THEN Append(q, frame) ELSE Append(Tail(q), frame)

\* hub.go:315-320: select { case client.Send <- frame: default: }, the
\* channel after a send that does not wait.
TrySend(q, frame) == IF Len(q) < SendCap THEN Append(q, frame) ELSE q

\* hub.go:286-304: broadcastPresenceUpdate collects the list and the
\* recipients under the lock.
HubPresenceCollect ==
    /\ hubPc = "presence"
    /\ LET to == PresenceRecipients(hubDoc)
       IN /\ clientsToSend' = to
          /\ IF to = {}
             THEN /\ hubPc' = "select"
                  /\ hubDoc' = NoDoc
                  /\ hubClient' = NoClient
                  /\ userStatuses' = {}
             ELSE /\ hubPc' = "presence_send"
                  /\ userStatuses' = Presence[hubDoc]
                  /\ UNCHANGED <<hubDoc, hubClient>>
    /\ lastExec' = NoExec
    /\ UNCHANGED <<nFrames, env, collab, role, nSent, saves>>
    /\ Silent
    /\ Unheld
    /\ NoNilWrite
    /\ UNCHANGED wpc
    /\ UNCHANGED rawMessage
    /\ UNCHANGED <<hubVars, hubMsg, currentContent, swVars, Send,
                   closed, connClosed, cpc, pending, updatedSince, store,
                   delPc>>

\* hub.go:314-321: one turn of the presence send loop; a full channel only
\* loses the frame.
HubPresenceSend(c) ==
    /\ hubPc = "presence_send"
    /\ c \in clientsToSend
    /\ IF closed[c]
       THEN /\ hubPc' = "panic"
            /\ UNCHANGED <<Send, clientsToSend, hubDoc, hubClient,
                           userStatuses>>
       ELSE /\ Send' = [Send EXCEPT ![c] =
                          TrySend(@, PresenceFrame(hubDoc, userStatuses))]
            /\ clientsToSend' = clientsToSend \ {c}
            /\ hubPc' = IF clientsToSend = {c}
                        THEN "select" ELSE "presence_send"
            /\ hubDoc' = IF clientsToSend = {c} THEN NoDoc ELSE hubDoc
            /\ hubClient' = IF clientsToSend = {c} THEN NoClient ELSE hubClient
            /\ userStatuses' = IF clientsToSend = {c} THEN {} ELSE userStatuses
    /\ lastExec' = NoExec
    /\ UNCHANGED <<nFrames, env, collab, role>>
    /\ Counted
    /\ UNCHANGED saves
    /\ Silent
    /\ Unheld
    /\ NoNilWrite
    /\ UNCHANGED wpc
    /\ UNCHANGED rawMessage
    /\ UNCHANGED <<hubVars, hubMsg, currentContent, swVars,
                   closed, connClosed, cpc, pending, updatedSince, store,
                   delPc>>

(***************************************************************************)
(* Hub.SaveWorker (hub.go:202-260).                                        *)
(***************************************************************************)
\* A faulty snapshot: the stored content is copied, not the cache.
SnapshotOfStore == [d \in {x \in DOMAIN DirtyDocs : DirtyDocs[x]} |-> store[d]]

\* hub.go:217-233: the copies taken of every dirty document.
Snapshot == [d \in {x \in DOMAIN DirtyDocs : DirtyDocs[x]} |-> CacheGet(d)]

\* hub.go:207-234: a tick of the ticker; the snapshot is taken under the
\* lock.
SaveTick ==
    /\ swPc = "tick"
    /\ env.ticks
    /\ docsToSave' = Snapshot
    /\ swPc' = IF DOMAIN Snapshot = {} THEN "tick" ELSE "exec"
    /\ updatedSince' = [d \in Docs |-> ""]
    /\ lastExec' = NoExec
    /\ saves' = [d \in Docs |-> [prev |-> saves[d].cur, cur |-> "none"]]
    /\ UNCHANGED <<nFrames, env, collab, role, nSent>>
    /\ Silent
    /\ Unheld
    /\ NoNilWrite
    /\ UNCHANGED wpc
    /\ UNCHANGED rawMessage
    /\ UNCHANGED <<hubVars, hubLocals, hubPc, swDoc, Send, closed,
                   connClosed, cpc, pending, store, delPc>>

\* Where the loop of hub.go:238 goes once docID d is dealt with.
AfterSave(d) == IF DOMAIN docsToSave = {d} THEN "tick" ELSE "exec"

\* A faulty write: the cache entry as it is now, not the copy taken of it.
ExecContentLive(d) == CacheGet(d)

\* hub.go:240: data.Content, the bytes handed to the UPDATE statement.
ExecContent(d) == docsToSave[d]

\* hub.go:238-244: the write of one snapshot, outside the lock.  A failed
\* write goes on to the next docID.
SaveExec(d) ==
    /\ swPc = "exec"
    /\ d \in DOMAIN docsToSave
    /\ lastExec' = Exec(d, ExecContent(d), "saveworker")
    /\ UNCHANGED <<nFrames, env, collab, role, nSent>>
    /\ Silent
    /\ Unheld
    /\ NoNilWrite
    /\ UNCHANGED wpc
    /\ UNCHANGED rawMessage
    /\ \E ok \in BOOLEAN :
         /\ store' = StoreWrite(store, d, ExecContent(d), ok)
         /\ IF ok
            THEN /\ swPc' = "recheck"
                 /\ swDoc' = d
                 /\ UNCHANGED docsToSave
            ELSE /\ swPc' = AfterSave(d)
                 /\ docsToSave' = MapDelete(docsToSave, d)
                 /\ UNCHANGED swDoc
         /\ updatedSince' = [updatedSince EXCEPT ![d] = IF ok THEN @ ELSE ""]
         /\ saves' = [saves EXCEPT ![d].cur =
                         IF updatedSince[d] # "" THEN @
                         ELSE IF ok THEN "ok" ELSE "failed"]
    /\ UNCHANGED <<hubVars, hubLocals, hubPc, Send, closed, connClosed, cpc,
                   pending, delPc>>

\* A recheck that never finds the cache unchanged: the flag is never cleared.
StillCurrentNever(d, content) == FALSE

\* hub.go:252: the cache still holds what was written.
StillCurrent(d, content) == CacheGet(d) = content

\* hub.go:249-255: the dirty flag is cleared under the lock.
SaveRecheck ==
    /\ swPc = "recheck"
    /\ DirtyDocs' = IF StillCurrent(swDoc, docsToSave[swDoc])
                    THEN MapSet(DirtyDocs, swDoc, FALSE)
                    ELSE DirtyDocs
    /\ swPc' = AfterSave(swDoc)
    /\ docsToSave' = MapDelete(docsToSave, swDoc)
    /\ swDoc' = NoDoc
    /\ updatedSince' = [updatedSince EXCEPT ![swDoc] = ""]
    /\ lastExec' = NoExec
    /\ UNCHANGED <<nFrames, env, collab, role, nSent, saves>>
    /\ Silent
    /\ Unheld
    /\ NoNilWrite
    /\ UNCHANGED wpc
    /\ UNCHANGED rawMessage
    /\ UNCHANGED <<Rooms, DocumentCache, Presence, hubLocals, hubPc, Send,
                   closed, connClosed, cpc, pending, store, delPc>>

(***************************************************************************)
(* DeleteDocument (document.service.go:68-84) and Hub.RemoveDocument       *)
(* (hub.go:264-280).                                                       *)
(***************************************************************************)
\* document.service.go:78: the row is deleted first.
RepoDelete(d) ==
    /\ delPc[d] = "none"
    /\ env.deletes
    /\ store[d] # NoRow
    /\ store' = [store EXCEPT ![d] = NoRow]
    /\ delPc' = [delPc EXCEPT ![d] = "deleted"]
    /\ lastExec' = NoExec
    /\ UNCHANGED <<nFrames, env, collab, role, nSent, saves>>
    /\ Silent
    /\ Unheld
    /\ NoNilWrite
    /\ UNCHANGED wpc
    /\ UNCHANGED rawMessage
    /\ UNCHANGED <<hubVars, hubLocals, hubPc, swVars, Send, closed,
                   connClosed, cpc, pending, updatedSince>>

\* hub.go:264-280, all of it under the lock: the maps lose the docID and
\* the transport of every Client of the room is closed.
RemoveDocument(d) ==
    /\ delPc[d] = "deleted"
    /\ DocumentCache' = MapDelete(DocumentCache, d)
    /\ DirtyDocs' = MapDelete(DirtyDocs, d)
    /\ Presence' = MapDelete(Presence, d)
    /\ connClosed' = [c \in Clients |-> connClosed[c] \/ c \in RoomGet(d)]
    /\ Rooms' = MapDelete(Rooms, d)
    /\ delPc' = [delPc EXCEPT ![d] = "removed"]
    /\ lastExec' = NoExec
    /\ UNCHANGED <<nFrames, env, collab, role, nSent, saves>>
    /\ Silent
    /\ heldIO' = IF RoomGet(d) = {} THEN {} ELSE {"Conn.Close"}
    /\ NoNilWrite
    /\ UNCHANGED wpc
    /\ UNCHANGED rawMessage
    /\ UNCHANGED <<hubLocals, hubPc, swVars, Send, closed, cpc, pending,
                   store, updatedSince>>

(***************************************************************************)
(* InviteCollaborator (document.service.go:97-113).                        *)
(***************************************************************************)
\* The roles the owner hands out in a run.
InviteRoles == {RoleWriter}

\* document.service.go:113: the owner's invitation upserts the collaborators
\* row of a user; here u3 is given another role than it has.
InviteCollaborator(u, r) ==
    /\ env.invites
    /\ u = "u3"
    /\ store["D"] # NoRow
    /\ collab[u] # r
    /\ collab' = [collab EXCEPT ![u] = r]
    /\ lastExec' = NoExec
    /\ UNCHANGED <<nFrames, env, role, nSent, saves>>
    /\ Silent
    /\ Unheld
    /\ NoNilWrite
    /\ UNCHANGED wpc
    /\ UNCHANGED rawMessage
    /\ UNCHANGED <<hubVars, hubLocals, hubPc, swVars, Send, closed,
                   connClosed, cpc, pending, updatedSince, store, delPc>>

(***************************************************************************)
(* The system.                                                             *)
(***************************************************************************)
Next ==
    \/ \E c \in Clients : ServeWs(c)
    \/ \E c \in Clients : ReadMessage(c)
    \/ \E c \in Clients : ReadError(c)
    \/ \E c \in Clients : WritePump(c)
    \/ \E c \in Clients : WritePumpClosed(c)
    \/ \E c \in Clients : WritePing(c)
    \/ \E c \in Clients : ConnClose(c)
    \/ \E c \in Clients : HubRegister(c)
    \/ HubRegSendUpdate
    \/ HubRegSendMeta
    \/ \E c \in Clients : HubUnregister(c)
    \/ HubUnregCheck
    \/ \E c \in Clients : HubBroadcast(c)
    \/ \E c \in Clients : HubBroadcastSend(c)
    \/ HubPresenceCollect
    \/ \E c \in Clients : HubPresenceSend(c)
    \/ SaveTick
    \/ \E d \in Docs : SaveExec(d)
    \/ SaveRecheck
    \/ \E d \in Docs : RepoDelete(d)
    \/ \E d \in Docs : RemoveDocument(d)
    \/ \E u \in Users, r \in InviteRoles : InviteCollaborator(u, r)

Spec == Init /\ [][Next]_vars

(***************************************************************************)
(* Steps of a behaviour, told apart by what they change.                   *)
(***************************************************************************)
\* Hub.Run takes a step.
HubNext ==
    \/ \E c \in Clients : HubRegister(c)
    \/ HubRegSendUpdate
    \/ HubRegSendMeta
    \/ \E c \in Clients : HubUnregister(c)
    \/ HubUnregCheck
    \/ \E c \in Clients : HubBroadcast(c)
    \/ \E c \in Clients : HubBroadcastSend(c)
    \/ HubPresenceCollect
    \/ \E c \in Clients : HubPresenceSend(c)

\* SaveWorker re-checks the docID it has just written.
RecheckStep == swPc = "recheck" /\ swPc' # "recheck"

\* SaveWorker takes its snapshot.
TickStep == swPc = "tick" /\ env.ticks

\* SaveWorker writes the snapshot of d.
ExecStep(d) ==
    /\ swPc = "exec"
    /\ d \in DOMAIN docsToSave
    /\ \/ swPc' = "recheck" /\ swDoc' = d
       \/ d \notin DOMAIN docsToSave'

\* The Hub takes c from h.Unregister.
UnregisterStep(c) == cpc[c] = "unregister" /\ cpc'[c] = "closing"

\* The Hub takes a message of c's readPump from h.Broadcast.
BroadcastStep(c) == cpc[c] = "broadcast" /\ cpc'[c] = "read"

\* broadcastPresenceUpdate takes its snapshot.
PresenceCollectStep == hubPc = "presence" /\ hubPc' # "presence"

\* broadcastPresenceUpdate serves recipient c.
PresenceSendStep(c) ==
    hubPc = "presence_send" /\ c \in clientsToSend /\ c \notin clientsToSend'

\* A frame is put on c's Send channel.
Enqueued(c) == Len(Send'[c]) > Len(Send[c])

(***************************************************************************)
(* C1  Slow-client isolation.                                              *)
(***************************************************************************)
\* C1: when a broadcast finds a recipient whose Send channel is full, the
\* Hub unregisters it and goes on with later events: the loop is never
\* stopped for good at the eviction, so Hub.Run always has a next step there.
C1_SlowClientIsolation == hubPc = "bcast_unregister" => ENABLED HubNext

(***************************************************************************)
(* C2  Save/update race.                                                   *)
(***************************************************************************)
\* C2: when an UPDATE with bytes other than SaveWorker's copy was cached for
\* a docID between the snapshot and the re-check, and the documents row is
\* still there, DirtyDocs[docID] is true after the re-check, so that the
\* next tick writes the newer content.
C2_DirtyAfterRace ==
    [][(/\ RecheckStep
        /\ updatedSince[swDoc] \notin {"", docsToSave[swDoc]}
        /\ store[swDoc] # NoRow)
         => (swDoc \in DOMAIN DirtyDocs' /\ DirtyDocs'[swDoc])]_vars

(***************************************************************************)
(* C3  Forced remove implies no flush.                                     *)
(***************************************************************************)
\* C3: once RemoveDocument(docID) has returned, no content write for that
\* docID is issued any more.
C3_NoWriteAfterRemove ==
    [][\A d \in Docs : delPc[d] = "removed" => lastExec'.doc # d]_vars

(***************************************************************************)
(* C4  Room empty implies flush.                                           *)
(***************************************************************************)
\* C4: the unregister of the last Client of a room issues exactly one
\* content write, with the cache bytes of that moment, when the document is
\* dirty, and none when it is not; the room, the presence map, the cache
\* entry and the dirty flag are gone afterwards.
C4_FlushOnEmpty ==
    [][\A c \in Clients :
         (UnregisterStep(c) /\ RoomGet(DocID(c)) = {c})
           => /\ lastExec' = IF DirtyGet(DocID(c))
                             THEN Exec(DocID(c), CacheGet(DocID(c)),
                                       "unregister")
                             ELSE NoExec
              /\ store'[DocID(c)] \in
                   IF DirtyGet(DocID(c))
                   THEN {store[DocID(c)], CacheGet(DocID(c))}
                   ELSE {store[DocID(c)]}
              /\ DocID(c) \notin DOMAIN Rooms'
              /\ DocID(c) \notin DOMAIN Presence'
              /\ DocID(c) \notin DOMAIN DocumentCache'
              /\ DocID(c) \notin DOMAIN DirtyDocs']_vars

\* The last Client has just left a dirty room: the flush changed the row.
C4_Witness ==
    /\ lastExec.by = "unregister"
    /\ store[lastExec.doc] = lastExec.content
    /\ lastExec.content # InitialContent
    /\ lastExec.doc \notin DOMAIN Rooms

(***************************************************************************)
(* C5  The Send channel is closed exactly once.                            *)
(***************************************************************************)
\* C5: every Client that was registered and whose readPump has unregistered
\* it has had its Send channel closed, and no close hit a closed channel.
C5_ClosedOnce ==
    /\ \A c \in Clients : cpc[c] = "done" => closed[c]
    /\ hubPc # "panic"

(***************************************************************************)
(* C6  No send on a closed Send channel.                                   *)
(***************************************************************************)
\* C6: every Client the Hub is about to send to -- the joiner in the
\* Register case, the recipients of a broadcast or of a presence update --
\* has an open Send channel, and no send has hit a closed channel.
C6_NoSendOnClosed ==
    /\ hubPc \in {"reg_update", "reg_meta"} => ~closed[hubClient]
    /\ hubPc \in {"bcast_send", "presence_send"}
         => \A c \in clientsToSend : ~closed[c]
    /\ hubPc # "panic"

\* A presence update is being sent while another Client's channel has
\* already been closed.
C6_Witness ==
    /\ hubPc = "presence_send"
    /\ clientsToSend # {}
    /\ \E c \in Clients : closed[c]

(***************************************************************************)
(* C7  Presence list content.                                              *)
(***************************************************************************)
\* C7: the list a presence update carries holds exactly the users that
\* have a Client in the room.
C7_PresenceList ==
    (hubPc = "presence_send" /\ hubDoc \in DOMAIN Rooms)
      => userStatuses = {UserID(c) : c \in Rooms[hubDoc]}

(***************************************************************************)
(* C8  Presence delivery.                                                  *)
(***************************************************************************)
\* C8 as stated: every Client of the room gets the PRESENCE_UPDATE frame of
\* the event on its Send channel.
C8_PresenceDelivered ==
    [][\A c \in Clients :
         PresenceSendStep(c)
           => Send'[c] = Append(Send[c], PresenceFrame(hubDoc, userStatuses))
      ]_vars

\* C8 amended: a register, and an unregister that leaves the room in place,
\* start a presence broadcast; its recipients are all the Clients of the
\* room; each recipient is served once and gets exactly one PRESENCE_UPDATE
\* frame when its Send channel has a free slot and none when it is full;
\* no other channel changes, and the broadcast ends only when every
\* recipient has been served.
C8_PresenceDeliveredIfRoom ==
    [][/\ (hubPc = "reg_meta" /\ hubPc' # "reg_meta")
          => (hubPc' = "presence" /\ hubDoc' = DocID(hubClient))
       /\ (hubPc = "unreg_check" /\ hubPc' # "unreg_check"
             /\ hubDoc \in DOMAIN Rooms)
          => (hubPc' = "presence" /\ hubDoc' = hubDoc)
       /\ PresenceCollectStep => clientsToSend' = RoomGet(hubDoc)
       /\ \A c \in Clients :
            PresenceSendStep(c)
              => /\ Send'[c] =
                      IF Len(Send[c]) < SendCap
                      THEN Append(Send[c],
                                  PresenceFrame(hubDoc, userStatuses))
                      ELSE Send[c]
                 /\ \A o \in Clients \ {c} : Send'[o] = Send[o]
                 /\ clientsToSend' = clientsToSend \ {c}
       /\ (hubPc = "presence_send" /\ hubPc' = "select")
          => clientsToSend' = {}
      ]_vars

\* A presence update is about to be offered to a Client whose channel is
\* full while the other Client of the room has already got its frame.
C8_Witness ==
    /\ hubPc = "presence_send"
    /\ \E c \in clientsToSend : Len(Send[c]) = SendCap
    /\ \E o \in RoomGet(hubDoc) \ clientsToSend :
         /\ Send[o] # <<>>
         /\ Send[o][Len(Send[o])] = PresenceFrame(hubDoc, userStatuses)

(***************************************************************************)
(* C9  Fanout reaches every other Client.                                  *)
(***************************************************************************)
\* C9: the recipients of a message a Client sent are all the other Clients
\* of its room, the other tabs of the same user included.
C9_FanoutToOthers ==
    [][\A c \in Clients :
         BroadcastStep(c) => clientsToSend' = RoomGet(DocID(c)) \ {c}]_vars

(***************************************************************************)
(* C10  Self-echo suppression.                                             *)
(***************************************************************************)
\* C10: while the Hub fans out a message, no frame is put on the Send
\* channel of the Client whose readPump sent it.
C10_NoSelfEcho ==
    [][\A c \in Clients :
         (hubPc = "bcast_send" /\ Enqueued(c)) => c # hubMsg.origin]_vars

\* A message is being fanned out while its sender is still in the room.
C10_Witness ==
    /\ hubPc = "bcast_send"
    /\ clientsToSend # {}
    /\ hubMsg.origin \in RoomGet(hubMsg.doc)

C12_SpoofResistance ==
    [][/\ \A c \in Clients :
            pending'[c] # NoMsg
              => /\ pending'[c].doc = DocID(c)
                 /\ pending'[c].user = UserID(c)
                 /\ pending'[c].origin = c
                 /\ pending'[c].type = rawMessage'[c].type
                 /\ pending'[c].payload = rawMessage'[c].payload
       /\ hubMsg' # NoMsg
            => /\ hubMsg'.origin \in Clients
               /\ hubMsg'.doc = DocID(hubMsg'.origin)
               /\ hubMsg'.user = UserID(hubMsg'.origin)
       /\ \A c \in Clients :
            (hubPc = "bcast_send" /\ Enqueued(c))
              => /\ Send'[c][Len(Send'[c])].doc = DocID(hubMsg.origin)
                 /\ Send'[c][Len(Send'[c])].user = UserID(hubMsg.origin)
      ]_vars

\* A frame that names another document and another user is on its way to
\* the Hub.
C12_Witness ==
    \E c \in Clients :
      /\ pending[c] # NoMsg
      /\ rawMessage[c].doc # DocID(c)
      /\ rawMessage[c].user \notin {"", UserID(c)}
      /\ RoomGet(DocID(c)) \ {c} # {}

(***************************************************************************)
(* C13  Role enforcement.                                                  *)
(***************************************************************************)
\* C13: no UPDATE of a Client whose role is not writer is offered to or
\* handled by the Hub; the step that reads such a frame changes nothing but
\* the count of frames read: the cache, the dirty flags, the rooms, every
\* Send channel and the Client's own place in readPump stay as they were.
C13_RoleEnforcement ==
    [][/\ \A c \in Clients :
            Role(c) # RoleWriter
              => /\ pending'[c].type # UpdateType
                 /\ hubMsg'.origin = c => hubMsg'.type # UpdateType
       /\ (/\ lastSkip'.client # NoClient
           /\ lastSkip'.frame.type = UpdateType)
            => /\ Role(lastSkip'.client) # RoleWriter
               /\ UNCHANGED <<hubVars, hubLocals, hubPc, Send, closed,
                              connClosed, cpc, pending, store>>
               /\ cpc'[lastSkip'.client] = "read"
               /\ lastSkip'.client \in RoomGet(DocID(lastSkip'.client))'
      ]_vars

\* A reviewer in a room with a peer has just had its UPDATE frame skipped.
C13_Witness ==
    /\ lastSkip.client # NoClient
    /\ lastSkip.frame.type = UpdateType
    /\ Role(lastSkip.client) = RoleReviewer
    /\ RoomGet(DocID(lastSkip.client)) \ {lastSkip.client} # {}

(***************************************************************************)
(* C14  Server-only frame types.                                           *)
(***************************************************************************)
\* C14: a frame of type JOIN, LEAVE, PRESENCE_UPDATE or METADATA sent by a
\* client is never offered to the Hub.
C14_ServerTypesIgnored ==
    \A c \in Clients :
      pending[c].type \notin
        {JoinType, LeaveType, PresenceUpdateType, MetadataType}

C16_NoIOUnderLock == heldIO = {}

(***************************************************************************)
(* C17  Eventual persistence.                                              *)
(***************************************************************************)
\* C17: when SaveWorker clears the dirty flag of a room that is open, and
\* that no DeleteDocument is about to close, the store holds the content of
\* the DocumentCache.
C17_PersistedWhenClean ==
    [][\A d \in Docs :
         (/\ RecheckStep
          /\ DirtyGet(d)
          /\ ~DirtyGet(d)'
          /\ d \in DOMAIN Rooms'
          /\ delPc'[d] # "deleted")
           => store'[d] = CacheGet(d)'
      ]_vars

(***************************************************************************)
(* C18  Malformed frames.                                                  *)
(***************************************************************************)
\* C18: a frame that fails to decode is skipped: the step that reads it
\* offers nothing to the Hub, changes no state of the Hub, no Send channel
\* and no room, and leaves the Client registered and reading; nothing that
\* is offered to the Hub comes from such a frame.
C18_MalformedSkipped ==
    [][/\ (lastSkip'.client # NoClient /\ ~lastSkip'.frame.json)
            => /\ UNCHANGED <<hubVars, hubLocals, hubPc, Send, closed,
                              connClosed, cpc, pending, store>>
               /\ cpc'[lastSkip'.client] = "read"
               /\ ~connClosed'[lastSkip'.client]
       /\ \A c \in Clients : pending'[c] # NoMsg => rawMessage'[c].json
      ]_vars

\* A Client in a room has just had a frame skipped that did not decode.
C18_Witness ==
    /\ lastSkip.client # NoClient
    /\ ~lastSkip.frame.json
    /\ lastSkip.client \in RoomGet(DocID(lastSkip.client))

(***************************************************************************)
(* C19  Admission errors.                                                  *)
(***************************************************************************)
\* C19: a request ServeWs turns away is never registered and its upgraded
\* transport is closed.
C19_RejectedClosed ==
    \A c \in Clients :
      cpc[c] = "rejected"
        => /\ connClosed[c]
           /\ c \notin RoomGet(DocID(c))

(***************************************************************************)
(* C20  Write pump after the close of Send.                                *)
(***************************************************************************)
\* C20: once the Hub has closed a Client's Send channel, writePump writes to
\* the transport nothing but the frames that were queued before the close.
C20_NoWriteAfterClose ==
    \A c \in Clients : closed[c] => wroteNil # c

(***************************************************************************)
(* C21  Write errors of the write pump.                                    *)
(***************************************************************************)
\* writePump takes a frame from c's Send channel and writes it.
WriteStep(c) == Len(Send'[c]) < Len(Send[c])

\* C21: a write of a queued frame that fails, the transport being closed, is
\* the last step of writePump.
C21_ExitOnWriteError ==
    [][\A c \in Clients :
         (WriteStep(c) /\ connClosed[c]) => wpc'[c] = "exited"
      ]_vars

(***************************************************************************)
(* C22  Unregister after RemoveDocument.                                   *)
(***************************************************************************)
\* Hub.Run is in the Unregister case for a former member of a room that
\* RemoveDocument took away: the Client it took from h.Unregister was in no
\* room, so its Send channel was left open.
StaleUnregister ==
    /\ hubPc \in {"unreg_check", "presence", "presence_send"}
    /\ hubClient # NoClient
    /\ ~closed[hubClient]
    /\ delPc[DocID(hubClient)] = "removed"

\* C22: the unregister of a Client that RemoveDocument has taken out of its
\* room changes no map of the Hub, closes no channel and writes nothing to
\* the store, and until the Hub is back at its select no frame is put on any
\* Send channel.
C22_StaleUnregisterNoOp ==
    [][/\ \A c \in Clients :
            (UnregisterStep(c) /\ c \notin RoomGet(DocID(c)))
              => /\ UNCHANGED <<hubVars, closed, store, Send>>
                 /\ lastExec' = NoExec
       /\ StaleUnregister => \A r \in Clients : ~Enqueued(r)
      ]_vars

(***************************************************************************)
(* C23  Rooms and their members.                                           *)
(***************************************************************************)
\* The Hub takes c from h.Register.
RegisterStep(c) == cpc[c] = "register" /\ cpc'[c] = "read"

\* C23: after every step each room of the registry has a member; the
\* register of a Client leaves a room for its docID with the Client in it,
\* and the unregister of the last member of a room deletes the room.
C23_RoomIffMember ==
    [][/\ \A d \in DOMAIN Rooms' : Rooms'[d] # {}
       /\ \A c \in Clients :
            /\ RegisterStep(c)
                 => /\ DocID(c) \in DOMAIN Rooms'
                    /\ Rooms'[DocID(c)] = RoomGet(DocID(c)) \cup {c}
            /\ (UnregisterStep(c) /\ RoomGet(DocID(c)) = {c} /\ ~closed[c])
                 => DocID(c) \notin DOMAIN Rooms'
            /\ (UnregisterStep(c) /\ c \in RoomGet(DocID(c))
                  /\ RoomGet(DocID(c)) # {c} /\ ~closed[c])
                 => Rooms'[DocID(c)] = Rooms[DocID(c)] \ {c}
      ]_vars

\* The last member of a room has just been unregistered and the room is
\* gone, after a time when the room had two members.
C23_Witness ==
    \E c \in Clients :
      /\ hubPc = "unreg_check"
      /\ hubClient = c
      /\ closed[c]
      /\ DocID(c) \notin DOMAIN Rooms
      /\ \E o \in Clients \ {c} : closed[o] /\ DocID(o) = DocID(c)

(***************************************************************************)
(* C24  The in-memory state of a document.                                 *)
(***************************************************************************)
\* Absent, Loaded or Loaded+Dirty, as the cache and the dirty flag tell.
DocState(d) ==
    IF DirtyGet(d) THEN "dirty"
    ELSE IF d \in DOMAIN DocumentCache THEN "loaded"
    ELSE "absent"

\* The Hub caches an UPDATE for d.
UpdateStep(d) ==
    \E c \in Clients :
      /\ BroadcastStep(c)
      /\ pending[c].type = UpdateType
      /\ pending[c].doc = d

\* RemoveDocument(d) runs.
RemoveStep(d) == delPc[d] = "deleted" /\ delPc'[d] = "removed"

\* C24: the state of a document changes from Absent to Loaded in a
\* register, from Loaded to Loaded+Dirty in an UPDATE, from Loaded+Dirty to
\* Loaded in the re-check that follows a write of SaveWorker, and to Absent
\* in an unregister or in RemoveDocument; in no other way.
C24_DocTransitions ==
    [][\A d \in Docs :
         DocState(d)' # DocState(d)
           => \/ /\ DocState(d) = "absent" /\ DocState(d)' = "loaded"
                 /\ \E c \in Clients : RegisterStep(c) /\ DocID(c) = d
              \/ /\ DocState(d) = "loaded" /\ DocState(d)' = "dirty"
                 /\ UpdateStep(d)
              \/ /\ DocState(d) = "dirty" /\ DocState(d)' = "loaded"
                 /\ RecheckStep /\ swDoc = d
              \/ /\ DocState(d) # "absent" /\ DocState(d)' = "absent"
                 /\ \/ \E c \in Clients : UnregisterStep(c) /\ DocID(c) = d
                    \/ RemoveStep(d)
      ]_vars

(***************************************************************************)
(* C25  Cache, dirty flag and presence live with the room.                 *)
(***************************************************************************)
\* C25: DocumentCache, DirtyDocs and Presence hold an entry for a docID only
\* while Rooms holds one.
C25_EntriesOnlyWithRoom ==
    (DOMAIN DocumentCache \cup DOMAIN DirtyDocs \cup DOMAIN Presence)
      \subseteq DOMAIN Rooms

(***************************************************************************)
(* C26  Store and cache of a clean room.                                   *)
(***************************************************************************)
\* The content of every room of d was loaded from the row: the row is
\* there, as it has been all along, and no query fails in the run.
LoadedFromRow(d) == store[d] # NoRow /\ ~env.readErrors

\* C26: when a room exists whose flag is false, whose content was loaded
\* from the row, and SaveWorker holds no snapshot still to be written or
\* re-checked, the row holds the content of the DocumentCache.
C26_CleanRoomInSync ==
    \A d \in Docs :
      (/\ d \in DOMAIN Rooms
       /\ ~DirtyGet(d)
       /\ LoadedFromRow(d)
       /\ d \notin DOMAIN docsToSave)
        => store[d] = CacheGet(d)

(***************************************************************************)
(* C27  A failed write of SaveWorker.                                      *)
(***************************************************************************)
\* SaveWorker's write of the snapshot of d fails.
FailedExecStep(d) ==
    /\ swPc = "exec"
    /\ d \in DOMAIN docsToSave
    /\ swPc' # "recheck"
    /\ d \notin DOMAIN docsToSave'

\* C27 as stated: a write of SaveWorker that fails changes neither the flag
\* nor the cache, and the tick after it copies the docID again, with the
\* content the cache holds at that tick.
C27_RetryNextTick ==
    [][\A d \in Docs :
         /\ FailedExecStep(d)
              => UNCHANGED <<DirtyDocs, DocumentCache, store>>
         /\ (SaveTick /\ saves[d].cur = "failed")
              => /\ d \in DOMAIN docsToSave'
                 /\ docsToSave'[d] = CacheGet(d)
      ]_vars

\* C27 amended: a write of SaveWorker that fails changes neither the flag
\* nor the cache: a flag that was true is left true; every tick copies each
\* docID whose flag is true with the content the cache holds at that tick,
\* so the tick after a failed write copies the docID again unless the flag
\* was deleted in between, with the room or by RemoveDocument.
C27_RetryWhileDirty ==
    [][\A d \in Docs :
         /\ FailedExecStep(d)
              => /\ UNCHANGED <<DirtyDocs, DocumentCache, store>>
                 /\ DirtyGet(d) => DirtyGet(d)'
         /\ SaveTick
              => /\ d \in DOMAIN docsToSave' <=> DirtyGet(d)
                 /\ DirtyGet(d) => docsToSave'[d] = CacheGet(d)
         /\ (SaveTick /\ saves[d].cur = "failed"
               /\ d \notin DOMAIN docsToSave')
              => d \notin DOMAIN DirtyDocs
      ]_vars

\* The tick after a failed write has copied the docID again.
C27_Witness ==
    \E d \in Docs :
      /\ saves[d].prev = "failed"
      /\ saves[d].cur = "none"
      /\ swPc = "exec"
      /\ d \in DOMAIN docsToSave
      /\ docsToSave[d] = CacheGet(d)

(***************************************************************************)
(* C28  A failed flush of the last unregister.                             *)
(***************************************************************************)
\* The unregister of c, the last member of its room, issues the flush and
\* the row does not take the content.
FailedFlushStep(c) ==
    /\ UnregisterStep(c)
    /\ lastExec'.by = "unregister"
    /\ store'[DocID(c)] # lastExec'.content

\* The step leaves nothing of d in the maps of the Hub.
Forgotten(d) ==
    d \notin (DOMAIN Rooms' \cup DOMAIN Presence' \cup DOMAIN DocumentCache'
                \cup DOMAIN DirtyDocs')

\* C28: after a flush that failed the room, the presence map, the cache
\* entry and the flag are deleted, the store is as it was, no tick would
\* copy the docID, and no write of the content is still to come.
C28_FlushNotRetried ==
    [][\A c \in Clients :
         FailedFlushStep(c)
           => /\ Forgotten(DocID(c))
              /\ store' = store
              /\ DocID(c) \notin DOMAIN Snapshot'
              /\ ~(/\ DocID(c) \in DOMAIN docsToSave'
                   /\ docsToSave'[DocID(c)] = lastExec'.content)
      ]_vars

(***************************************************************************)
(* C29  A first register whose load fails.                                 *)
(***************************************************************************)
\* The Hub takes c from h.Register and there is no room for its docID.
FirstRegisterStep(c) == RegisterStep(c) /\ DocID(c) \notin DOMAIN Rooms

PresenceDropStep(c) == PresenceSendStep(c) /\ Len(Send[c]) = SendCap

\* C30: a presence send that finds the Send channel of its recipient full
\* changes no Send channel, no room, no presence map and closes nothing; it
\* only takes the recipient off the list, so that the loop goes on with the
\* other recipients and ends at the select of Hub.Run when none is left;
\* and a recipient whose channel has a free slot gets the frame, whatever
\* happened to the recipients served before it.
C30_PresenceDropIsLocal ==
    [][\A c \in Clients :
         /\ PresenceDropStep(c)
              => /\ UNCHANGED <<Send, closed, hubVars, cpc>>
                 /\ clientsToSend' = clientsToSend \ {c}
                 /\ hubPc' = IF clientsToSend' = {} THEN "select"
                             ELSE "presence_send"
                 /\ clientsToSend' # {}
                      => UNCHANGED <<hubDoc, userStatuses>>
         /\ (PresenceSendStep(c) /\ Len(Send[c]) < SendCap)
              => Send'[c] = Append(Send[c],
                                   PresenceFrame(hubDoc, userStatuses))
      ]_vars

\* A presence update has been dropped for a Client whose channel is full;
\* the Client is still in the room and in the presence map, its channel is
\* open, and the other Client of the room is still to be served.
C30_Witness ==
    /\ hubPc = "presence_send"
    /\ clientsToSend # {}
    /\ \E c \in RoomGet(hubDoc) \ clientsToSend :
         /\ Len(Send[c]) = SendCap
         /\ Send[c][SendCap] # PresenceFrame(hubDoc, userStatuses)
         /\ ~closed[c]
         /\ UserID(c) \in Presence[hubDoc]

(***************************************************************************)
(* C31  Broadcasts that are no UPDATE.                                     *)
(***************************************************************************)
\* The send loop of the Broadcast case serves a recipient of hubMsg, or
\* finds its channel full.
BroadcastSendStep ==
    /\ hubPc = "bcast_send"
    /\ hubPc' # "bcast_send" \/ clientsToSend' # clientsToSend

\* C31: when the Hub processes a broadcast whose type is not UPDATE, in the
\* locked section and in every turn of the send loop, DocumentCache and
\* DirtyDocs stay as they are for every docID, as do the rooms, the
\* presence map and the documents table; the channels only gain frames.
C31_OnlyUpdateIsCached ==
    [][(\/ \E c \in Clients :
             BroadcastStep(c) /\ pending[c].type # UpdateType
        \/ BroadcastSendStep /\ hubMsg.type # UpdateType)
         => /\ UNCHANGED <<DocumentCache, DirtyDocs, Rooms, Presence, store>>
            /\ lastExec' = NoExec
            /\ \A r \in Clients :
                 \/ Send'[r] = Send[r]
                 \/ \E f \in {BroadcastFrame(hubMsg)} :
                      Send'[r] = Append(Send[r], f)]_vars

\* A CURSOR message has been broadcast into a room whose content is cached:
\* its frame is on a recipient's channel.
C31_Witness ==
    \E c \in Clients :
      /\ DocID(c) \in DOMAIN DocumentCache
      /\ \E i \in 1..Len(Send[c]) : Send[c][i].type = CursorType

(***************************************************************************)
(* C32  The cache of a room follows the UPDATEs.                           *)
(***************************************************************************)
\* The payload of the UPDATE for d the Hub takes from h.Broadcast in this
\* step.
ProcessedUpdates(d) ==
    {pending[c].payload : c \in {x \in Clients :
                                   /\ BroadcastStep(x)
                                   /\ pending[x].type = UpdateType
                                   /\ pending[x].doc = d}}

\* C32: the cache entry of a room is the content loaded when the room was
\* created until the Hub processes an UPDATE for the docID, and from then
\* on the payload of the most recent one: the step that creates the room
\* caches the loaded content, a step that processes an UPDATE caches its
\* payload and sets DirtyDocs[docID], and no other step changes the entry
\* while the room exists.
C32_CacheFollowsUpdates ==
    [][\A d \in Docs :
         /\ (d \notin DOMAIN Rooms /\ d \in DOMAIN Rooms')
              => \E ok \in QueryOutcomes :
                   /\ d \in DOMAIN DocumentCache'
                   /\ DocumentCache'[d] = LoadContent(d, ok)
         /\ \A p \in ProcessedUpdates(d) :
              /\ d \in DOMAIN DocumentCache' /\ DocumentCache'[d] = p
              /\ d \in DOMAIN DirtyDocs' /\ DirtyDocs'[d]
         /\ (/\ d \in DOMAIN Rooms
             /\ d \in DOMAIN Rooms'
             /\ ProcessedUpdates(d) = {})
              => /\ d \in DOMAIN DocumentCache
                 /\ d \in DOMAIN DocumentCache'
                 /\ DocumentCache'[d] = DocumentCache[d]]_vars

\* The Hub has processed an UPDATE of a room and is sending it on: the
\* cache holds its payload, which is not what the room was created with.
C32_Witness ==
    /\ hubPc = "bcast_send"
    /\ hubMsg.type = UpdateType
    /\ hubMsg.doc \in DOMAIN Rooms
    /\ hubMsg.payload # InitialContent
    /\ CacheGet(hubMsg.doc) = hubMsg.payload
    /\ DirtyGet(hubMsg.doc)

(***************************************************************************)
(* C33  An unregister that leaves others in the room.                      *)
(***************************************************************************)
\* The Hub takes c from h.Unregister while another Client is in c's room.
PartialUnregisterStep(c) ==
    /\ UnregisterStep(c)
    /\ c \in RoomGet(DocID(c))
    /\ RoomGet(DocID(c)) \ {c} # {}

\* C33: when a Client is unregistered while other Clients remain in its
\* room, the cache entry and the dirty flag of the room stay as they are
\* and no content is written to the store; the room loses the Client, the
\* presence map loses the entry of the Client's userID, and the Client's
\* Send channel is closed, while the channels of the others are untouched.
C33_PartialUnregister ==
    [][\A c \in Clients :
         PartialUnregisterStep(c)
           => /\ UNCHANGED <<DocumentCache, DirtyDocs, store, Send>>
              /\ lastExec' = NoExec
              /\ DOMAIN Rooms' = DOMAIN Rooms
              /\ \A d \in DOMAIN Rooms :
                   Rooms'[d] = IF d = DocID(c) THEN Rooms[d] \ {c}
                               ELSE Rooms[d]
              /\ DOMAIN Presence' = DOMAIN Presence
              /\ \A d \in DOMAIN Presence :
                   Presence'[d] = IF d = DocID(c)
                                  THEN Presence[d] \ {UserID(c)}
                                  ELSE Presence[d]
              /\ closed'[c]
              /\ \A o \in Clients \ {c} : closed'[o] = closed[o]]_vars

\* c has just been unregistered from a room that still has a member and
\* unsaved content.
C33_Witness ==
    /\ hubPc = "unreg_check"
    /\ hubClient # NoClient
    /\ closed[hubClient]
    /\ hubClient \notin RoomGet(hubDoc)
    /\ RoomGet(hubDoc) # {}
    /\ DirtyGet(hubDoc)
    /\ CacheGet(hubDoc) # store[hubDoc]

(***************************************************************************)
(* C34  Per-recipient FIFO.                                                *)
(***************************************************************************)
\* The step puts one frame on c's Send channel, behind those it holds.
EnqueuedLast(c) ==
    /\ Len(Send'[c]) = Len(Send[c]) + 1
    /\ SubSeq(Send'[c], 1, Len(Send[c])) = Send[c]

\* The step takes from c's Send channel the frame that was put on it
\* first, and that frame is what writePump writes.
WrittenFirst(c) ==
    /\ wpc[c] = "run"
    /\ Send[c] = <<Head(Send[c])>> \o Send'[c]

\* C34: the frames of a Client's Send channel are written to its transport
\* in the order in which the Hub put them there: every step that changes
\* the channel either puts one frame behind all the others or is
\* writePump taking the oldest one; and the frames of two broadcasts reach
\* a recipient's channel in the order in which the Hub processed them,
\* since the Hub takes the next message from h.Broadcast only when the
\* send loop of the one before is over, and each turn of the loop puts the
\* frame of the message being processed on the channel.
C34_PerRecipientFifo ==
    [][/\ \A c \in Clients :
            Send'[c] # Send[c] => EnqueuedLast(c) \/ WrittenFirst(c)
       /\ \A c \in Clients :
            BroadcastStep(c) => hubMsg = NoMsg /\ clientsToSend = {}
       /\ \A r \in Clients :
            (BroadcastSendStep /\ Enqueued(r))
              => Send'[r] = Append(Send[r], BroadcastFrame(hubMsg))]_vars

\* The frames with which c joined have been written, and its channel holds
\* the frames of two broadcasts of one sender, an UPDATE and the CURSOR
\* that followed it, in that order.
C34_Witness ==
    \E c \in Clients :
      /\ Len(Send[c]) = 2
      /\ Send[c][1].type = UpdateType
      /\ Send[c][2].type = CursorType
      /\ Send[c][1].user = Send[c][2].user
      /\ Send[c][1].user # ""
      /\ Send[c][1].payload = CacheGet(DocID(c))

(***************************************************************************)
(* C35  What SaveWorker writes.                                            *)
(***************************************************************************)
\* C35: the content SaveWorker writes for a docID is what the cache held
\* for it when the snapshot of the tick was taken under the lock: a copy
\* enters docsToSave only in the snapshot, as the cache entry of a dirty
\* docID at that moment; no later step, an UPDATE of the Hub included,
\* alters a copy that is still to be written; and the write carries the
\* copy.
C35_WriteIsSnapshot ==
    [][\A d \in Docs :
         /\ (d \in DOMAIN docsToSave' /\ d \notin DOMAIN docsToSave)
              => /\ swPc = "tick"
                 /\ DirtyGet(d)
                 /\ docsToSave'[d] = CacheGet(d)
         /\ (d \in DOMAIN docsToSave' /\ d \in DOMAIN docsToSave)
              => docsToSave'[d] = docsToSave[d]
         /\ (lastExec'.by = "saveworker" /\ lastExec'.doc = d)
              => /\ d \in DOMAIN docsToSave
                 /\ lastExec'.content = docsToSave[d]]_vars

\* SaveWorker has just written its copy of a docID for which the Hub
\* cached an UPDATE with other bytes after the snapshot.
C35_Witness ==
    /\ lastExec.by = "saveworker"
    /\ lastExec.doc \in DOMAIN Rooms
    /\ updatedSince[lastExec.doc] # ""
    /\ CacheGet(lastExec.doc) = updatedSince[lastExec.doc]
    /\ lastExec.content # CacheGet(lastExec.doc)

(***************************************************************************)
(* C36  The maps and the mutex.                                            *)
(***************************************************************************)
\* The step is one of the sections of hub.go that run between h.mu.Lock()
\* and h.mu.Unlock(): those of the three cases of Hub.Run, the snapshot of
\* broadcastPresenceUpdate, the snapshot and the re-check of SaveWorker,
\* and RemoveDocument.
LockedSection ==
    \/ \E c \in Clients : HubRegister(c)
    \/ \E c \in Clients : HubUnregister(c)
    \/ \E c \in Clients : HubBroadcast(c)
    \/ HubPresenceCollect
    \/ SaveTick
    \/ SaveRecheck
    \/ \E d \in Docs : RemoveDocument(d)

\* The step reads or writes Rooms, DocumentCache, DirtyDocs or Presence:
\* the locked sections, and the test of h.Rooms[docID] that follows the
\* Unlock of the Unregister case.
MapAccess == LockedSection \/ HubUnregCheck

\* C36: every step of Hub.Run, SaveWorker, RemoveDocument and
\* broadcastPresenceUpdate that reads or writes one of the shared maps is
\* a section that holds h.mu.
C36_MapsUnderLock == [][MapAccess => LockedSection]_vars

(***************************************************************************)
(* C37  Role resolution at the handshake.                                  *)
(***************************************************************************)
\* ServeWs builds the Client c.
HandshakeStep(c) == cpc[c] = "new" /\ cpc'[c] = "register"

EnqueuedFrame(c) == Send'[c][Len(Send'[c])]

\* c is alone in its room and has been sent one frame, its initial UPDATE,
\* while Client o of another user is joining the room.
AloneWithJoiner(c, o) ==
    /\ RoomGet(DocID(c)) = {c}
    /\ nSent[c] = 1
    /\ o # c
    /\ DocID(o) = DocID(c)
    /\ UserID(o) # UserID(c)
    /\ cpc[o] = "register"

\* C38: when a Client is alone in its room and a second user joins, the
\* frame that follows the Client's initial UPDATE on its Send channel, and
\* so on its transport, is a PRESENCE_UPDATE that lists the two users.
C38_PresenceFollowsInitial ==
    [][\A c, o \in Clients :
         (AloneWithJoiner(c, o) /\ Enqueued(c))
           => /\ EnqueuedFrame(c).type = PresenceUpdateType
              /\ EnqueuedFrame(c).users = {UserID(c), UserID(o)}]_vars

=============================================================================
